---------------------------- MODULE Spec2Model ----------------------------
(***************************************************************************)
(* Model of qa_quiz_agent.py: a Streamlit quiz script.  Streamlit re-runs  *)
(* the whole script, top to bottom, for every user interaction of a        *)
(* session ("render cycle"); only st.session_state survives between runs.  *)
(* A render cycle is atomic except at its blocking calls: the explanation  *)
(* request (which may raise and end the cycle) and the 20 second sleep.    *)
(* The history file quiz_log.json is shared by all sessions of the app.    *)
(***************************************************************************)
EXTENDS Integers, Sequences, FiniteSets, TLC

(* ------------------------------ bounds -------------------------------- *)
\* longest "results" array the trivia API answers with
MaxResults == 5
\* the history file holds at most this many entries before submits stop
MaxHist == 4
\* failed explanation requests tolerated within one quiz
MaxFailures == 1

\* fetch_questions(5): the count the script asks for (lines 77 and 194)
HowMany == 5

Sessions == {"s1", "s2"}
Single == {"s1"}

Answers == {"A", "B"}
QuestionTexts == <<"Q1", "Q2", "Q3", "Q4", "Q5", "Q6", "Q7", "Q8">>
ExplanationTexts == <<"E1", "E2", "E3", "E4", "E5", "E6", "E7", "E8">>

Range(f) == {f[i] : i \in DOMAIN f}

Last(sq) == sq[Len(sq)]

(* --------------------------- the trivia API --------------------------- *)
\* one element of the API's "results" array
Item(i) ==
    [question          |-> QuestionTexts[i],
     correct_answer    |-> IF i % 2 = 1 THEN "A" ELSE "B",
     incorrect_answers |-> IF i % 2 = 1 THEN <<"B">> ELSE <<"A">>,
     category          |-> "General",
     difficulty        |-> "easy"]

\* what requests.get(url).json()["results"] may be: any number of items,
\* none included (the API answers an error code with an empty array)
ApiResults == {[i \in 1..n |-> Item(i)] : n \in 0..MaxResults}

\* a request that raises instead (network error, malformed body) has ok FALSE
NetworkError == [ok |-> FALSE, results |-> <<>>]

FetchOutcomes == {[ok |-> TRUE, results |-> r] : r \in ApiResults} \cup {NetworkError}

\* lines 25-54: one question record per item of data["results"]
fetch_questions(how_many, results) ==
    [i \in 1..Len(results) |->
        [question   |-> results[i].question,
         correct    |-> results[i].correct_answer,
         options    |-> results[i].incorrect_answers \o <<results[i].correct_answer>>,
         category   |-> results[i].category,
         difficulty |-> results[i].difficulty]]

(* ------------------------ the language model ------------------------- *)
\* lines 83-99: the text the model answers the prompt built from the question
\* and its correct answer with; each question has an explanation of its own
get_explanation(question_text, correct_answer) ==
    ExplanationTexts[CHOOSE i \in DOMAIN QuestionTexts : QuestionTexts[i] = question_text]

(* -------------------------- the history file -------------------------- *)
\* the user's answer and the correct answer written to each other's key
HistoryEntrySwapped(q, choice, expl) ==
    [question       |-> q.question,
     your_answer    |-> q.correct,
     correct_answer |-> choice,
     explanation    |-> expl]

\* lines 153-158: the dict appended to quiz_history
HistoryEntry(q, choice, expl) ==
    [question       |-> q.question,
     your_answer    |-> choice,
     correct_answer |-> q.correct,
     explanation    |-> expl]

\* a JSON object: its key/value pairs in insertion order
JsonObject(e) ==
    << <<"question", e.question>>, <<"your_answer", e.your_answer>>,
       <<"correct_answer", e.correct_answer>>, <<"explanation", e.explanation>> >>

JsonGet(obj, key) == (CHOOSE p \in Range(obj) : p[1] = key)[2]

NoFile == [exists |-> FALSE, text |-> <<>>]

\* only the newest entry written over the file
json_dump_newest(hist) ==
    [exists |-> TRUE,
     text |-> IF Len(hist) = 0 THEN <<>> ELSE <<JsonObject(hist[Len(hist)])>>]

\* lines 161-162: open(LOG_FILE, "w"); json.dump(quiz_history, file)
json_dump(hist) ==
    [exists |-> TRUE, text |-> [i \in 1..Len(hist) |-> JsonObject(hist[i])]]

\* lines 60-66: json.load of the file when it exists, [] otherwise
json_load(f) ==
    IF f.exists
    THEN [i \in 1..Len(f.text) |->
            [question       |-> JsonGet(f.text[i], "question"),
             your_answer    |-> JsonGet(f.text[i], "your_answer"),
             correct_answer |-> JsonGet(f.text[i], "correct_answer"),
             explanation    |-> JsonGet(f.text[i], "explanation")]]
    ELSE <<>>

\* an entry left by an earlier run of the app
OldEntry ==
    [question |-> "Q8", your_answer |-> "B", correct_answer |-> "A",
     explanation |-> "E8"]

InitialFiles == {NoFile, json_dump(<<OldEntry>>)}

(* ----------------------------- the page ------------------------------- *)
Shown(v) == <<v>>
NotShown == <<>>

\* n/d rounded to the nearest integer, ties to even: format(x, ".0f")
RoundHalfEven(n, d) ==
    LET q == n \div d
        r == n % d
    IN  IF 2 * r < d THEN q
        ELSE IF 2 * r > d THEN q + 1
        ELSE IF q % 2 = 0 THEN q ELSE q + 1

\* line 184 and line 190: (score / total_questions) * 100, shown with .0f
Percentage(score, total_questions) == RoundHalfEven(score * 100, total_questions)

\* lines 227-230
Wrong(cur, total_questions, pts) == IF cur <= total_questions THEN cur - pts ELSE total_questions - pts

BlankPage ==
    [branch |-> "none", button |-> "none", err |-> "",
     percentage |-> NotShown, wrong |-> NotShown]

\* lines 17-19
HaltedPage == [BlankPage EXCEPT !.err = "MissingKey"]

\* lines 109-130: the question, the radio and the button are rendered, the
\* handler of the pressed button is running, the footer is not reached yet
QuestionPage ==
    [branch |-> "question", button |-> "submit", err |-> "",
     percentage |-> NotShown, wrong |-> NotShown]

\* lines 101-231: what one run of the script renders from the session state
PageOf(qs, cur, pts) ==
    LET total_questions == Len(qs) IN
    IF cur < total_questions
    THEN [branch |-> "question", button |-> "submit", err |-> "",
          percentage |-> NotShown, wrong |-> Shown(Wrong(cur, total_questions, pts))]
    ELSE IF total_questions = 0
    THEN [branch |-> "complete", button |-> "none", err |-> "ZeroDivisionError",
          percentage |-> NotShown, wrong |-> NotShown]
    ELSE IF pts * 100 > total_questions * 100 \/ pts < 0
    THEN [branch |-> "complete", button |-> "none", err |-> "ProgressOutOfRange",
          percentage |-> Shown(Percentage(pts, total_questions)), wrong |-> NotShown]
    ELSE [branch |-> "complete", button |-> "newquiz", err |-> "",
          percentage |-> Shown(Percentage(pts, total_questions)),
          wrong |-> Shown(Wrong(cur, total_questions, pts))]

(* ------------------------------ state --------------------------------- *)
VARIABLES
    api_key,        \* OPENAI_API_KEY is set in the environment or the secrets
    LOG_FILE,       \* the content of quiz_log.json
    io,             \* external effects issued so far: "fetch", "read", "llm", "write"
    inited,         \* per session: "questions" in st.session_state
    questions,      \* per session: st.session_state.questions
    current_question, \* per session: st.session_state.current_question
    points,         \* per session: st.session_state.points
    user_answers,   \* per session: st.session_state.user_answers
    quiz_history,   \* per session: the script's quiz_history list of this run
    user_choice,    \* per session: the radio's value in the running handler
    explanation,    \* per session: the explanation the running handler got
    pc,             \* per session: where the running script is
    page            \* per session: what the last run rendered

vars == <<api_key, LOG_FILE, io, inited, questions, current_question, points, user_answers,
          quiz_history, user_choice, explanation, pc, page>>

session_state == <<inited, questions, current_question, points, user_answers>>

Init ==
    /\ api_key \in BOOLEAN
    /\ LOG_FILE \in InitialFiles
    /\ io = {}
    /\ inited = [s \in Sessions |-> FALSE]
    /\ questions = [s \in Sessions |-> <<>>]
    /\ current_question = [s \in Sessions |-> 0]
    /\ points = [s \in Sessions |-> 0]
    /\ user_answers = [s \in Sessions |-> <<>>]
    /\ quiz_history = [s \in Sessions |-> <<>>]
    /\ user_choice = [s \in Sessions |-> ""]
    /\ explanation = [s \in Sessions |-> ""]
    /\ pc = [s \in Sessions |-> "idle"]
    /\ page = [s \in Sessions |-> BlankPage]

\* the key check left out
KeyCheckSkipped == FALSE

\* line 17: if not api_key
KeyMissing == ~api_key

\* line 109
InProgress(s) == current_question[s] < Len(questions[s])

\* line 111
question(s) == questions[s][current_question[s] + 1]

(* ----------------------------- actions -------------------------------- *)
\* lines 75-80 and 194-197: the session state of a new quiz
NewQuiz(s, qs) ==
    /\ questions' = [questions EXCEPT ![s] = qs]
    /\ current_question' = [current_question EXCEPT ![s] = 0]
    /\ points' = [points EXCEPT ![s] = 0]
    /\ user_answers' = [user_answers EXCEPT ![s] = <<>>]

\* The first run of the script in a session (lines 11-231): the key check,
\* then the history file is read, the questions are fetched and the quiz starts.
FirstRun(s, reply) ==
    /\ pc[s] = "idle"
    /\ ~inited[s]
    /\ IF KeyMissing
       THEN /\ page' = [page EXCEPT ![s] = HaltedPage]
            /\ UNCHANGED <<io, session_state, quiz_history>>
       ELSE /\ quiz_history' = [quiz_history EXCEPT ![s] = json_load(LOG_FILE)]
            /\ io' = io \cup {"read", "fetch"}
            /\ IF ~reply.ok
               THEN /\ page' = [page EXCEPT ![s] =
                                   [BlankPage EXCEPT !.err = "FetchFailed"]]
                    /\ UNCHANGED session_state
               ELSE /\ inited' = [inited EXCEPT ![s] = TRUE]
                    /\ NewQuiz(s, fetch_questions(HowMany, reply.results))
                    /\ page' = [page EXCEPT ![s] =
                                   PageOf(fetch_questions(HowMany, reply.results), 0, 0)]
    /\ UNCHANGED <<api_key, LOG_FILE, user_choice, explanation, pc>>

\* A later run of the script with no button pressed (a refresh, another
\* radio option selected): lines 11-231 with the quiz already in the session.
Rerun(s) ==
    /\ pc[s] = "idle"
    /\ inited[s]
    /\ IF KeyMissing
       THEN /\ page' = [page EXCEPT ![s] = HaltedPage]
            /\ UNCHANGED <<io, quiz_history>>
       ELSE /\ quiz_history' = [quiz_history EXCEPT ![s] = json_load(LOG_FILE)]
            /\ io' = io \cup {"read"}
            /\ page' = [page EXCEPT ![s] = PageOf(questions[s], current_question[s], points[s])]
    /\ UNCHANGED <<api_key, LOG_FILE, session_state, user_choice, explanation, pc>>

\* the bound of the model: answers are submitted while the history has room
HistoryHasRoom == Len(json_load(LOG_FILE)) < MaxHist

\* line 130: the Submit Answer button is on the page
SubmitButton(s) == page[s].button = "submit"

\* the Start New Quiz button rendered on every page
NewQuizButtonAlways(s) == TRUE

\* line 193: the Start New Quiz button is on the page
NewQuizButton(s) == page[s].button = "newquiz"

\* lines 135-139: the new score
Scored(pts, choice, correct) == IF choice = correct THEN pts + 1 ELSE pts

\* Submit Answer pressed with the radio on choice: the script runs from the
\* top (lines 11-142) up to the explanation request.
ClickSubmit(s, choice) ==
    /\ pc[s] = "idle"
    /\ HistoryHasRoom
    /\ ~KeyMissing
    /\ SubmitButton(s)
    /\ inited[s]
    /\ InProgress(s)
    /\ choice \in Range(question(s).options)
    /\ quiz_history' = [quiz_history EXCEPT ![s] = json_load(LOG_FILE)]
    /\ io' = io \cup {"read"}
    /\ points' = [points EXCEPT ![s] = Scored(points[s], choice, question(s).correct)]
    /\ user_answers' = [user_answers EXCEPT ![s] = Append(user_answers[s], choice)]
    /\ user_choice' = [user_choice EXCEPT ![s] = choice]
    /\ page' = [page EXCEPT ![s] = QuestionPage]
    /\ pc' = [pc EXCEPT ![s] = "explain"]
    /\ UNCHANGED <<api_key, LOG_FILE, inited, questions, current_question, explanation>>

\* lines 147-149: get_explanation returns
ExplainOk(s) ==
    /\ pc[s] = "explain"
    /\ explanation' = [explanation EXCEPT ![s] =
                          get_explanation(question(s).question, question(s).correct)]
    /\ io' = io \cup {"llm"}
    /\ pc' = [pc EXCEPT ![s] = "append"]
    /\ UNCHANGED <<api_key, LOG_FILE, session_state, quiz_history, user_choice, page>>

\* line 147: get_explanation raises; the run ends there, the widgets rendered
\* so far stay on the page and the footer is not rendered
ExplainFail(s) ==
    /\ pc[s] = "explain"
    /\ Len(user_answers[s]) - current_question[s] <= MaxFailures
    /\ io' = io \cup {"llm"}
    /\ page' = [page EXCEPT ![s] = [QuestionPage EXCEPT !.err = "ExplainFailed"]]
    /\ user_choice' = [user_choice EXCEPT ![s] = ""]
    /\ pc' = [pc EXCEPT ![s] = "idle"]
    /\ UNCHANGED <<api_key, LOG_FILE, session_state, quiz_history, explanation>>

\* lines 153-158: quiz_history.append({...})
AppendHistory(s) ==
    /\ pc[s] = "append"
    /\ quiz_history' = [quiz_history EXCEPT ![s] =
           Append(quiz_history[s], HistoryEntry(question(s), user_choice[s], explanation[s]))]
    /\ pc' = [pc EXCEPT ![s] = "persist"]
    /\ UNCHANGED <<api_key, LOG_FILE, io, session_state, user_choice, explanation, page>>

\* the write re-reads the file and adds the new entry to what it holds now
PersistMerged(s) ==
    /\ pc[s] = "persist"
    /\ LOG_FILE' = json_dump(Append(json_load(LOG_FILE), Last(quiz_history[s])))
    /\ io' = io \cup {"read", "write"}
    /\ pc' = [pc EXCEPT ![s] = "sleep"]
    /\ UNCHANGED <<api_key, session_state, quiz_history, user_choice, explanation, page>>

\* lines 161-162: the whole list is written over the file
Persist(s) ==
    /\ pc[s] = "persist"
    /\ LOG_FILE' = json_dump(quiz_history[s])
    /\ io' = io \cup {"write"}
    /\ pc' = [pc EXCEPT ![s] = "sleep"]
    /\ UNCHANGED <<api_key, session_state, quiz_history, user_choice, explanation, page>>

\* lines 166-170: the sleep ends, the index advances and st.rerun() runs the
\* script again (lines 11-231, no button pressed)
Advance(s) ==
    /\ pc[s] = "sleep"
    /\ current_question' = [current_question EXCEPT ![s] = current_question[s] + 1]
    /\ quiz_history' = [quiz_history EXCEPT ![s] = json_load(LOG_FILE)]
    /\ io' = io \cup {"read"}
    /\ page' = [page EXCEPT ![s] = PageOf(questions[s], current_question[s] + 1, points[s])]
    /\ user_choice' = [user_choice EXCEPT ![s] = ""]
    /\ explanation' = [explanation EXCEPT ![s] = ""]
    /\ pc' = [pc EXCEPT ![s] = "idle"]
    /\ UNCHANGED <<api_key, LOG_FILE, inited, questions, points, user_answers>>

\* Start New Quiz pressed: the script runs from the top to lines 193-198 and,
\* the fetch done, st.rerun() runs it again
ClickNewQuiz(s, reply) ==
    /\ pc[s] = "idle"
    /\ ~KeyMissing
    /\ NewQuizButton(s)
    /\ quiz_history' = [quiz_history EXCEPT ![s] = json_load(LOG_FILE)]
    /\ io' = io \cup {"read", "fetch"}
    /\ IF ~reply.ok
       THEN /\ page' = [page EXCEPT ![s].err = "FetchFailed", ![s].wrong = NotShown]
            /\ UNCHANGED session_state
       ELSE /\ NewQuiz(s, fetch_questions(HowMany, reply.results))
            /\ page' = [page EXCEPT ![s] =
                           PageOf(fetch_questions(HowMany, reply.results), 0, 0)]
            /\ UNCHANGED inited
    /\ UNCHANGED <<api_key, LOG_FILE, user_choice, explanation, pc>>

Step(s) ==
    \/ \E reply \in FetchOutcomes : FirstRun(s, reply)
    \/ Rerun(s)
    \/ \E choice \in Answers : ClickSubmit(s, choice)
    \/ ExplainOk(s)
    \/ ExplainFail(s)
    \/ AppendHistory(s)
    \/ Persist(s)
    \/ Advance(s)
    \/ \E reply \in FetchOutcomes : ClickNewQuiz(s, reply)

\* one user, one session
Next == \E s \in Single : Step(s)

Spec == Init /\ [][Next]_vars

\* Two sessions of the app on the same history file, each playing a quiz of
\* one question whose requests all succeed.
RaceReplies == {r \in FetchOutcomes : r.ok /\ Len(r.results) = 1}

RaceStep(s) ==
    \/ \E reply \in RaceReplies : FirstRun(s, reply)
    \/ Rerun(s)
    \/ \E choice \in Answers : ClickSubmit(s, choice)
    \/ ExplainOk(s)
    \/ AppendHistory(s)
    \/ Persist(s)
    \/ Advance(s)

NextRace == \E s \in Sessions : RaceStep(s)

SpecRace == Init /\ [][NextRace]_vars

(* ------------------------------ claims -------------------------------- *)
\* the handler of a session's Submit Answer click is running
InSubmit(s) == pc[s] # "idle"

\* the handler of a session's Submit Answer click ends at this step
SubmitEnds(s) == pc[s] # "idle" /\ pc'[s] = "idle"

\* C1: every submit made while the quiz is in progress adds 1 to the score
\* iff the choice is the correct answer, advances the index by exactly 1 and
\* leaves the questions as they are.
C1_SubmitContract ==
    [][\A s \in Single :
        /\ (pc[s] = "idle" /\ pc'[s] = "explain") =>
              /\ user_choice'[s] \in Range(question(s).options)
              /\ points'[s] = points[s] + (IF user_choice'[s] = question(s).correct THEN 1 ELSE 0)
        /\ (InSubmit(s) /\ pc'[s] # pc[s]) => points'[s] = points[s]
        /\ (InSubmit(s) \/ pc'[s] # "idle") => questions'[s] = questions[s]
        /\ SubmitEnds(s) => current_question'[s] = current_question[s] + 1
        /\ (InSubmit(s) \/ pc'[s] # "idle") /\ ~SubmitEnds(s) => current_question'[s] = current_question[s]
      ]_vars

\* C2: from a fresh quiz, after as many submits as there are questions the
\* index equals the length and 0 <= score <= length; on the way the index
\* stays within 0..length.  (Every submit records one answer, so the number
\* of submits made is the length of user_answers.)
C2_CompleteAfterLengthSubmits ==
    \A s \in Single :
        (inited[s] /\ pc[s] = "idle") =>
            /\ 0 <= current_question[s] /\ current_question[s] <= Len(questions[s])
            /\ Len(user_answers[s]) = Len(questions[s]) =>
                  /\ current_question[s] = Len(questions[s])
                  /\ 0 <= points[s] /\ points[s] <= Len(questions[s])
            /\ current_question[s] = Len(questions[s]) =>
                  (0 <= points[s] /\ points[s] <= Len(questions[s]))

\* C10: at every render-cycle boundary, whatever submits (failed ones too)
\* and resets came before, len(user_answers) = current_question,
\* 0 <= points <= current_question, and the footer's wrong counter is
\* current_question - points >= 0.
C10_CycleBoundaryInvariant ==
    \A s \in Single :
        (inited[s] /\ pc[s] = "idle") =>
            /\ Len(user_answers[s]) = current_question[s]
            /\ 0 <= points[s] /\ points[s] <= current_question[s]
            /\ page[s].wrong # NotShown =>
                  /\ page[s].wrong[1] = current_question[s] - points[s]
                  /\ page[s].wrong[1] >= 0

\* C6: whenever the COMPLETE branch is rendered the quiz has at least one
\* question, and the percentage is score/length * 100 within 0..100.
C6_PercentageDefined ==
    \A s \in Single :
        page[s].branch = "complete" =>
            /\ Len(questions[s]) > 0
            /\ page[s].percentage # NotShown
            /\ 2 * (page[s].percentage[1] * Len(questions[s]) - 100 * points[s]) <= Len(questions[s])
            /\ 2 * (100 * points[s] - page[s].percentage[1] * Len(questions[s])) <= Len(questions[s])
            /\ page[s].percentage[1] \in 0..100

\* C7: a fetch of count questions yields exactly count questions, each with
\* a non-empty correct answer that is one of its options.
C7_FetchReturnsCount ==
    \A s \in Single :
        inited[s] =>
            /\ Len(questions[s]) = HowMany
            /\ \A i \in DOMAIN questions[s] :
                  /\ questions[s][i].correct # ""
                  /\ questions[s][i].correct \in Range(questions[s][i].options)

\* C8: with the API key missing the run halts before anything else: no
\* trivia fetch, no read or write of the history file, no quiz state.
C8_MissingKeyHalts ==
    ~api_key =>
        /\ io = {}
        /\ LOG_FILE \in InitialFiles
        /\ \A s \in Sessions :
              /\ ~inited[s]
              /\ questions[s] = <<>> /\ current_question[s] = 0 /\ points[s] = 0
              /\ user_answers[s] = <<>> /\ quiz_history[s] = <<>>
              /\ pc[s] = "idle"
              /\ page[s] \in {BlankPage, HaltedPage}

C8_Witness == ~api_key /\ page["s1"] = HaltedPage

\* the steps a run of the script takes, in the order of the code
HandlerOrder ==
    {<<"idle", "explain">>, <<"explain", "append">>, <<"append", "persist">>,
     <<"persist", "sleep">>, <<"sleep", "idle">>, <<"explain", "idle">>}

\* C9: within one submit the order is compare, explain, append to history,
\* persist, advance: when the index goes from i to i+1 the file already ends
\* with the entry of question i (its text, the user's choice, the correct
\* answer, the explanation), and a submit whose explanation request fails
\* appends and persists nothing and does not advance the index.
C9_SubmitOrder ==
    [][\A s \in Single :
        /\ pc'[s] # pc[s] => <<pc[s], pc'[s]>> \in HandlerOrder
        /\ points'[s] # points[s] /\ InSubmit(s) => FALSE
        /\ quiz_history'[s] # quiz_history[s] /\ InSubmit(s) =>
              \/ pc[s] = "append" /\ explanation[s] # ""
              \/ pc[s] = "sleep" /\ quiz_history'[s] = json_load(LOG_FILE)
        /\ LOG_FILE' # LOG_FILE => pc[s] = "persist" /\ Len(quiz_history[s]) > 0
        /\ current_question'[s] = current_question[s] + 1 =>
              /\ pc[s] = "sleep"
              /\ LOG_FILE.exists /\ Len(LOG_FILE.text) > 0
              /\ LET e == Last(json_load(LOG_FILE))
                     q == questions[s][current_question[s] + 1]
                 IN  /\ e.question = q.question
                     /\ e.your_answer = Last(user_answers[s])
                     /\ e.correct_answer = q.correct
                     /\ e.explanation = get_explanation(q.question, q.correct)
                     /\ DOMAIN e = {"question", "your_answer", "correct_answer", "explanation"}
        /\ (pc[s] = "explain" /\ pc'[s] = "idle") =>
              /\ LOG_FILE' = LOG_FILE
              /\ quiz_history'[s] = quiz_history[s]
              /\ current_question'[s] = current_question[s]
      ]_vars

\* one submit failed on its explanation request, the next one went through
C9_Witness ==
    /\ pc["s1"] = "idle" /\ current_question["s1"] = 1 /\ Len(user_answers["s1"]) = 2
    /\ LOG_FILE.exists /\ Len(LOG_FILE.text) = 1

\* C3: in a single session, append(e) followed by a load in a fresh run
\* gives the persisted history followed by e, the earlier entries unchanged
\* and in their order; with no history file the load gives the empty list
\* and no error.
C3_HistoryRoundTrip ==
    /\ [][LOG_FILE' # LOG_FILE =>
            \E s \in Single :
                /\ pc[s] = "persist"
                /\ LOG_FILE'.exists
                /\ Len(json_load(LOG_FILE')) = Len(json_load(LOG_FILE)) + 1
                /\ SubSeq(json_load(LOG_FILE'), 1, Len(json_load(LOG_FILE))) = json_load(LOG_FILE)
                /\ Last(json_load(LOG_FILE')) = Last(quiz_history[s])
         ]_vars
    /\ [](\A s \in Single :
            (pc[s] = "idle" /\ inited[s]) =>
                /\ quiz_history[s] = json_load(LOG_FILE)
                /\ ~LOG_FILE.exists => (quiz_history[s] = <<>> /\ page[s].branch # "none"))

\* an older entry is still first after two appends, loaded by a fresh run
C3_Witness ==
    /\ pc["s1"] = "idle"
    /\ Len(quiz_history["s1"]) = 3
    /\ quiz_history["s1"][1] = OldEntry
    /\ quiz_history["s1"] = json_load(LOG_FILE)

\* C5: the controller is IN_PROGRESS (index < length) or COMPLETE (index =
\* length); the index changes only by a submit in IN_PROGRESS, by +1 with
\* the answer recorded, or by the reset in COMPLETE, which fetches a batch
\* and sets index 0, score 0, no answers.  No going back, no skipping, no reset
\* while IN_PROGRESS.
C5_TwoStateController ==
    /\ [][\A s \in Single :
            inited[s] =>
              /\ current_question'[s] # current_question[s] \/ questions'[s] # questions[s] =>
                  \/ /\ current_question[s] < Len(questions[s])
                     /\ current_question'[s] = current_question[s] + 1
                     /\ questions'[s] = questions[s]
                     /\ Len(user_answers[s]) > current_question[s]
                     /\ Last(user_answers[s]) \in Range(questions[s][current_question[s] + 1].options)
                     /\ user_answers'[s] = user_answers[s]
                  \/ /\ current_question[s] = Len(questions[s])
                     /\ "fetch" \in io'
                     /\ current_question'[s] = 0 /\ points'[s] = 0 /\ user_answers'[s] = <<>>
                     /\ page'[s] = PageOf(questions'[s], 0, 0)
         ]_vars
    /\ [](\A s \in Single :
            inited[s] => (0 <= current_question[s] /\ current_question[s] <= Len(questions[s])))

\* a second quiz is in progress after a completed first one
C5_Witness ==
    /\ inited["s1"] /\ "write" \in io /\ pc["s1"] = "idle"
    /\ current_question["s1"] = 1 /\ Len(questions["s1"]) = 2
    /\ Len(json_load(LOG_FILE)) = 2 /\ json_load(LOG_FILE)[1].question = json_load(LOG_FILE)[2].question

\* C4: the writes of the history file are not mutually exclusive: a write
\* puts the writer's own list, loaded at the start of its run plus its one
\* entry, over the file whatever the file holds by then (last writer wins),
\* so two sessions that both loaded before either wrote leave only one of
\* their two entries in the file.
C4_LastWriterWins ==
    [][LOG_FILE' # LOG_FILE =>
          \E s \in Sessions :
              /\ pc[s] = "persist" /\ pc'[s] = "sleep"
              /\ json_load(LOG_FILE') = quiz_history[s]
      ]_vars

\* both sessions have appended and persisted; the file holds the entry of s2
\* and not the entry of s1
C4_Witness ==
    /\ pc["s1"] = "sleep" /\ pc["s2"] = "sleep"
    /\ Len(quiz_history["s1"]) = Len(quiz_history["s2"])
    /\ Last(quiz_history["s1"]) # Last(quiz_history["s2"])
    /\ json_load(LOG_FILE) = quiz_history["s2"]
    /\ \A i \in 1..Len(json_load(LOG_FILE)) : json_load(LOG_FILE)[i] # Last(quiz_history["s1"])
=============================================================================
